---- MODULE Spec2Model ----
(***************************************************************************)
(* A model of pyfuzz: the mutators (pyfuzz/core/mutators.py), the fuzzing  *)
(* engine (pyfuzz/core/engine.py) and the crash monitor                    *)
(* (pyfuzz/monitors/crash_monitor.py).                                     *)
(*                                                                         *)
(* Byte strings and text are sequences of numbers (byte values and code    *)
(* points).  Three specifications share the module:                        *)
(*   Spec     the engine: construction, then FuzzingEngine.run             *)
(*   SpecMut  mutator instances over the process-wide random generator     *)
(*   SpecMon  a CrashMonitor and its execute_with_monitoring calls         *)
(*   SpecStrat   one call of one of the six strategies of Mutator          *)
(*   SpecHttp    HttpTarget.run calls (pyfuzz/targets/http_target.py)      *)
(*   SpecWorkers two threads in the bookkeeping of one FuzzingEngine       *)
(***************************************************************************)
EXTENDS Integers, Sequences, FiniteSets, TLC

VARIABLES
    \* the process-wide generator of the `random` module
    rng,
    \* FuzzingEngine
    corpus, seen_coverage, seen_crashes,
    total_executions, unique_crashes, unique_paths, last_new_path_time,
    use_dictionary, max_iterations, crash_files,
    \* FuzzingEngine.run: position, loop index and locals
    pc, i, seed, mutated, result, crash_hash, cov_ret, exit, clock, summary,
    \* what the engine has been handed so far (history, not program state)
    crash_msgs, cov_history, cov_entry, cov_appends, target_calls, seed_count,
    \* mutator instances
    muts, mut_log, picks,
    \* CrashMonitor
    mon_seen, mon_files, mon_log,
    \* one call of a strategy of Mutator
    strat,
    \* HttpTarget.run calls
    http_log,
    \* threads in _save_crash and _check_new_coverage of one engine
    w_pc, w_result

rngVars == <<rng>>
engVars == <<corpus, seen_coverage, seen_crashes, total_executions, unique_crashes,
             unique_paths, last_new_path_time, use_dictionary, max_iterations,
             crash_files, pc, i, seed, mutated, result, crash_hash, cov_ret, exit,
             clock, summary, crash_msgs, cov_history, cov_entry, cov_appends,
             target_calls, seed_count>>
mutVars == <<muts, mut_log, picks>>
monVars == <<mon_seen, mon_files, mon_log>>
sideVars == <<strat, http_log, w_pc, w_result>>
vars == <<rngVars, engVars, mutVars, monVars, sideVars>>

-----------------------------------------------------------------------------
(* Bounds *)

\* iterations one run is given at most
MaxIter == 2
\* files in the seed directory at most
MaxSeedFiles == 1
\* distinct states the generator is seeded to by the system (no seed given)
MaxEntropy == 0
\* seeds a caller gives a mutator: 0..MaxSeed
MaxSeed == 0
\* mutate calls per mutator instance
MaxCalls == 2
\* draws by other users of the generator between mutate calls
MaxPicks == 1
\* execute_with_monitoring calls on the monitor
MaxMonCalls == 2

-----------------------------------------------------------------------------
(* Sequences *)

Min(a, b) == IF a < b THEN a ELSE b

\* s[a:b] of Python, 0-based and half open, for 0 <= a
Slice(s, a, b) == SubSeq(s, a + 1, Min(b, Len(s)))

IsPrefix(s, t) == Len(s) <= Len(t) /\ SubSeq(t, 1, Len(s)) = s

-----------------------------------------------------------------------------
(* The random module: one generator for the whole process.  Its state      *)
(* determines every later draw; seeding sets the state from the seed.      *)

RngStep(s) == (s * 5 + 3) % 256

\* the number a draw in state s is computed from
RngWord(s) == (s * 7 + (s \div 16)) % 256

\* random.seed(n)
RngSeed(n) == (n * 37 + 11) % 256

\* random.randint(lo, hi) in state s (lo <= hi); the state after is RngStep(s)
RandInt(s, lo, hi) == lo + (RngWord(s) % (hi - lo + 1))

\* random.random() < 0.3 in state s
RandomBelow30(s) == (RngWord(s) % 10) < 3

-----------------------------------------------------------------------------
(* Mutator: the six strategies.  Each takes the data and the state of the  *)
(* generator and gives the result and the state the generator is left in.  *)

INTERESTING_8 == <<0, 1, 127, 128, 255>>
INTERESTING_16 == <<0, 1, 32767, 32768, 65535>>
\* 0, 1, 2147483647, 2147483648, 4294967295, each as <<high, low>> 16-bit halves
\* (the values exceed the integers of the model checker)
INTERESTING_32 == <<<<0, 0>>, <<0, 1>>, <<32767, 65535>>, <<32768, 0>>, <<65535, 65535>>>>

\* the bit set where the code flips it: b | (1 << k)
OrBit(b, k) == IF (b \div (2 ^ k)) % 2 = 1 THEN b ELSE b + 2 ^ k

\* b ^ (1 << k) for a byte b
XorBit(b, k) == IF (b \div (2 ^ k)) % 2 = 1 THEN b - 2 ^ k ELSE b + 2 ^ k

\* little-endian bytes of v, n of them: struct.pack('<H', v) for n = 2
RECURSIVE Pack(_, _)
Pack(v, n) == IF n = 0 THEN <<>> ELSE <<v % 256>> \o Pack(v \div 256, n - 1)

\* struct.pack('<I', v) for v given as <<high, low>>
Pack32(v) == Pack(v[2], 2) \o Pack(v[1], 2)

\* data[pos] = v
SetByte(data, pos, v) == [data EXCEPT ![pos + 1] = v]

\* data[a:b] = bytes
SetSlice(data, a, b, bytes) == Slice(data, 0, a) \o bytes \o Slice(data, b, Len(data))

\* n draws of random.randint(0, 255) from state s
RECURSIVE DrawBytes(_, _)
DrawBytes(s, n) ==
    IF n = 0 THEN [out |-> <<>>, rng |-> s]
    ELSE LET rest == DrawBytes(RngStep(s), n - 1)
         IN [out |-> <<RandInt(s, 0, 255)>> \o rest.out, rng |-> rest.rng]

_bit_flip(data, s) ==
    LET pos == RandInt(s, 0, Len(data) - 1)
        s1 == RngStep(s)
        bit == RandInt(s1, 0, 7)
    IN [out |-> SetByte(data, pos, XorBit(data[pos + 1], bit)), rng |-> RngStep(s1)]

_byte_flip(data, s) ==
    LET pos == RandInt(s, 0, Len(data) - 1)
        s1 == RngStep(s)
    IN [out |-> SetByte(data, pos, RandInt(s1, 0, 255)), rng |-> RngStep(s1)]

\* _insert_interesting as it would be without the tests that the value fits
_insert_interesting_unchecked(data, s) ==
    LET pos == RandInt(s, 0, Len(data) - 1)
        s1 == RngStep(s)
        choice == RandInt(s1, 0, 2)
        s2 == RngStep(s1)
        k == RandInt(s2, 0, 4) + 1
    IN IF choice = 0 /\ Len(data) >= 1
         THEN [out |-> SetByte(data, pos, INTERESTING_8[k]), rng |-> RngStep(s2)]
       ELSE IF choice = 1 /\ Len(data) >= 2
         THEN [out |-> SetSlice(data, pos, pos + 2, Pack(INTERESTING_16[k], 2)),
               rng |-> RngStep(s2)]
       ELSE IF choice = 2 /\ Len(data) >= 4
         THEN [out |-> SetSlice(data, pos, pos + 4, Pack32(INTERESTING_32[k])),
               rng |-> RngStep(s2)]
       ELSE [out |-> data, rng |-> s2]

_insert_interesting(data, s) ==
    LET pos == RandInt(s, 0, Len(data) - 1)
        s1 == RngStep(s)
        choice == RandInt(s1, 0, 2)
        s2 == RngStep(s1)
        k == RandInt(s2, 0, 4) + 1
    IN IF choice = 0 /\ Len(data) >= 1
         THEN [out |-> SetByte(data, pos, INTERESTING_8[k]), rng |-> RngStep(s2)]
       ELSE IF choice = 1 /\ Len(data) >= 2
         THEN [out |-> IF pos + 1 < Len(data)
                         THEN SetSlice(data, pos, pos + 2, Pack(INTERESTING_16[k], 2))
                         ELSE data,
               rng |-> RngStep(s2)]
       ELSE IF choice = 2 /\ Len(data) >= 4
         THEN [out |-> IF pos + 3 < Len(data)
                         THEN SetSlice(data, pos, pos + 4, Pack32(INTERESTING_32[k]))
                         ELSE data,
               rng |-> RngStep(s2)]
       ELSE [out |-> data, rng |-> s2]

\* the bound as it would be counted from the byte after pos
MaxDeleteAfter(data, pos) == Min(10, Len(data) - pos - 1)

\* min(10, len(data) - pos): the longest run _delete_bytes removes at pos
MaxDelete(data, pos) == Min(10, Len(data) - pos)

\* _delete_bytes as it would be with a run length drawn from 0
_delete_bytes_from_zero(data, s) ==
    IF Len(data) <= 1 THEN [out |-> data, rng |-> s]
    ELSE LET pos == RandInt(s, 0, Len(data) - 1)
             s1 == RngStep(s)
             length == RandInt(s1, 0, MaxDelete(data, pos))
         IN [out |-> SetSlice(data, pos, pos + length, <<>>), rng |-> RngStep(s1)]

_delete_bytes(data, s) ==
    IF Len(data) <= 1 THEN [out |-> data, rng |-> s]
    ELSE LET pos == RandInt(s, 0, Len(data) - 1)
             s1 == RngStep(s)
             length == RandInt(s1, 1, MaxDelete(data, pos))
         IN [out |-> SetSlice(data, pos, pos + length, <<>>), rng |-> RngStep(s1)]

_insert_bytes(data, s) ==
    LET pos == RandInt(s, 0, Len(data))
        s1 == RngStep(s)
        length == RandInt(s1, 1, 10)
        new_bytes == DrawBytes(RngStep(s1), length)
    IN [out |-> SetSlice(data, pos, pos, new_bytes.out), rng |-> new_bytes.rng]

_swap_bytes(data, s) ==
    IF Len(data) < 2 THEN [out |-> data, rng |-> s]
    ELSE LET pos1 == RandInt(s, 0, Len(data) - 1)
             s1 == RngStep(s)
             pos2 == RandInt(s1, 0, Len(data) - 1)
         IN [out |-> [data EXCEPT ![pos1 + 1] = data[pos2 + 1],
                                  ![pos2 + 1] = data[pos1 + 1]],
             rng |-> RngStep(s1)]

\* Mutator.mutate
Mutator_mutate(data, s) ==
    IF Len(data) = 0 THEN [out |-> data, rng |-> s]
    ELSE LET strategy == RandInt(s, 0, 5)
             s1 == RngStep(s)
         IN CASE strategy = 0 -> _bit_flip(data, s1)
              [] strategy = 1 -> _byte_flip(data, s1)
              [] strategy = 2 -> _insert_interesting(data, s1)
              [] strategy = 3 -> _delete_bytes(data, s1)
              [] strategy = 4 -> _insert_bytes(data, s1)
              [] strategy = 5 -> _swap_bytes(data, s1)

\* the strategies by name
Strategies == {"_bit_flip", "_byte_flip", "_insert_interesting", "_delete_bytes",
               "_insert_bytes", "_swap_bytes"}

\* strategy(data) for the strategy of that name
Strategy(name, data, s) ==
    CASE name = "_bit_flip" -> _bit_flip(data, s)
      [] name = "_byte_flip" -> _byte_flip(data, s)
      [] name = "_insert_interesting" -> _insert_interesting(data, s)
      [] name = "_delete_bytes" -> _delete_bytes(data, s)
      [] name = "_insert_bytes" -> _insert_bytes(data, s)
      [] name = "_swap_bytes" -> _swap_bytes(data, s)

\* random.randint(lo, hi) raises ValueError when the range is empty
EmptyRange(lo, hi) == hi < lo

\* data[pos] raises IndexError when pos is not a subscript of data
BadIndex(data, pos) == pos < 0 \/ pos > Len(data) - 1

\* a bytearray takes values in range(256) only
BadByte(v) == v < 0 \/ v > 255

(* Whether the call strategy(data) raises: the ranges it hands to           *)
(* random.randint, the subscripts it uses and the values it stores, in the  *)
(* order of the code.  Slices never raise.                                  *)
Raises(name, data, s) ==
    CASE name = "_bit_flip" ->
           \/ EmptyRange(0, Len(data) - 1)
           \/ LET pos == RandInt(s, 0, Len(data) - 1)
                  bit == RandInt(RngStep(s), 0, 7)
              IN BadIndex(data, pos) \/ BadByte(XorBit(data[pos + 1], bit))
      [] name = "_byte_flip" ->
           \/ EmptyRange(0, Len(data) - 1)
           \/ BadIndex(data, RandInt(s, 0, Len(data) - 1))
           \/ BadByte(RandInt(RngStep(s), 0, 255))
      [] name = "_insert_interesting" ->
           \/ EmptyRange(0, Len(data) - 1)
           \/ LET pos == RandInt(s, 0, Len(data) - 1)
                  choice == RandInt(RngStep(s), 0, 2)
                  k == RandInt(RngStep(RngStep(s)), 0, 4) + 1
              IN \/ choice = 0 /\ Len(data) >= 1 /\
                       (BadIndex(data, pos) \/ BadByte(INTERESTING_8[k]))
                 \/ choice = 1 /\ Len(data) >= 2 /\
                       (INTERESTING_16[k] < 0 \/ INTERESTING_16[k] > 65535)
                 \/ choice = 2 /\ Len(data) >= 4 /\
                       \E h \in 1..2 : INTERESTING_32[k][h] < 0 \/ INTERESTING_32[k][h] > 65535
      [] name = "_delete_bytes" ->
           /\ Len(data) > 1
           /\ \/ EmptyRange(0, Len(data) - 1)
              \/ EmptyRange(1, MaxDelete(data, RandInt(s, 0, Len(data) - 1)))
      [] name = "_insert_bytes" ->
           \/ EmptyRange(0, Len(data))
           \/ EmptyRange(1, 10)
           \/ LET length == RandInt(RngStep(s), 1, 10)
                  new_bytes == DrawBytes(RngStep(RngStep(s)), length).out
              IN \E n \in 1..length : BadByte(new_bytes[n])
      [] name = "_swap_bytes" ->
           /\ Len(data) >= 2
           /\ \/ EmptyRange(0, Len(data) - 1)
              \/ BadIndex(data, RandInt(s, 0, Len(data) - 1))
              \/ BadIndex(data, RandInt(RngStep(s), 0, Len(data) - 1))

-----------------------------------------------------------------------------
(* DictionaryMutator *)

DefaultDictionary ==
    <<<<123, 123>>,
       <<125, 125>>,
       <<60, 115, 99, 114, 105, 112, 116, 62>>,
       <<60, 47, 115, 99, 114, 105, 112, 116, 62>>,
       <<39>>,
       <<34>>,
       <<92>>,
       <<0>>,
       <<255>>,
       <<37, 115>>,
       <<37, 110>>,
       <<37, 120>>,
       <<46, 46, 47, 46, 46, 47, 46, 46, 47>>,
       <<110, 117, 108, 108>>,
       <<117, 110, 100, 101, 102, 105, 110, 101, 100>>,
       <<45, 49>>,
       <<48>>,
       <<57, 57, 57, 57, 57, 57, 57, 57>>>>

\* an optional argument: absent (None), or given with a value
Absent == [some |-> FALSE, val |-> <<>>]
Given(v) == [some |-> TRUE, val |-> v]
\* seed = None
NoSeed == [some |-> FALSE, val |-> 0]

\* self.dictionary = dictionary or [...]: None and the empty list are both falsy
DictionaryInit(dictionary) ==
    IF ~dictionary.some \/ dictionary.val = <<>> THEN DefaultDictionary
    ELSE dictionary.val

_insert_dictionary_token(dictionary, data, s) ==
    LET token == dictionary[RandInt(s, 0, Len(dictionary) - 1) + 1]
        s1 == RngStep(s)
        pos == RandInt(s1, 0, Len(data))
    IN [out |-> SetSlice(data, pos, pos, token), rng |-> RngStep(s1)]

\* DictionaryMutator.mutate
DictionaryMutator_mutate(dictionary, data, s) ==
    IF RandomBelow30(s) THEN _insert_dictionary_token(dictionary, data, RngStep(s))
    ELSE Mutator_mutate(data, RngStep(s))

\* Mutator(seed) and DictionaryMutator(dictionary, seed): the instance
NewMutator(cls, dictionary) ==
    [cls |-> cls,
     dictionary |-> IF cls = "DictionaryMutator" THEN DictionaryInit(dictionary)
                    ELSE <<>>]

\* if seed is not None: random.seed(seed)
SeedRng(seedArg, s) == IF seedArg.some THEN RngSeed(seedArg.val) ELSE s

\* self.mutator.mutate(data): dispatch on the class of the instance
Mutate(m, data, s) ==
    IF m.cls = "DictionaryMutator" THEN DictionaryMutator_mutate(m.dictionary, data, s)
    ELSE Mutator_mutate(data, s)

-----------------------------------------------------------------------------
(* SpecMut: mutator instances of one process.  Every instance draws from   *)
(* the generator of the random module, as does FuzzingEngine._pick_input.  *)

Instances == {1, 2}

\* the state the random module seeds itself to when it is loaded
EntropyState(e) == (e * 101 + 7) % 256

MutInputs == {<<>>, <<65, 66, 67, 68>>}
MutDictionaries == {Absent, Given(<<>>), Given(<<<<88>>, <<89, 90>>>>)}
MutSeeds == {NoSeed} \cup {Given(n) : n \in 0..MaxSeed}

InitRng == rng \in {EntropyState(e) : e \in 0..MaxEntropy}

InitMutators ==
    /\ muts = [k \in Instances |->
                 [made |-> FALSE, seed |-> NoSeed, given |-> Absent,
                  m |-> NewMutator("Mutator", Absent)]]
    /\ mut_log = [k \in Instances |-> <<>>]
    /\ picks = 0

\* Mutator(seed=...) or DictionaryMutator(dictionary=..., seed=...)
MutConstruct(k, cls, dictionary, seedArg) ==
    /\ ~muts[k].made
    /\ muts' = [muts EXCEPT ![k] =
                  [made |-> TRUE, seed |-> seedArg, given |-> dictionary,
                   m |-> NewMutator(cls, dictionary)]]
    /\ rng' = SeedRng(seedArg, rng)
    /\ UNCHANGED <<mut_log, picks, engVars, monVars, sideVars>>

\* instance k: mutate(data)
MutCall(k, data) ==
    /\ muts[k].made
    /\ Len(mut_log[k]) < MaxCalls
    /\ LET r == Mutate(muts[k].m, data, rng)
       IN /\ mut_log' = [mut_log EXCEPT ![k] = Append(@, [data |-> data, out |-> r.out])]
          /\ rng' = r.rng
    /\ UNCHANGED <<muts, picks>>

\* another user of the generator: random.choice(self.corpus) of the engine
MutPickInput ==
    /\ picks < MaxPicks
    /\ picks' = picks + 1
    /\ rng' = RngStep(rng)
    /\ UNCHANGED <<muts, mut_log>>

-----------------------------------------------------------------------------
(* Text and hashing *)

\* str.encode(): UTF-8, for code points below 2048
RECURSIVE Encode(_)
Encode(text) ==
    IF text = <<>> THEN <<>>
    ELSE LET c == Head(text)
         IN (IF c < 128 THEN <<c>> ELSE <<192 + (c \div 64), 128 + (c % 64)>>)
            \o Encode(Tail(text))

\* hashlib.md5(bytes).hexdigest()[:digits]: a value fixed by the bytes hashed and
\* the number of digits kept; distinct inputs are taken to give distinct digests
Md5Hex(bytes, digits) == [md5 |-> bytes, digits |-> digits]

-----------------------------------------------------------------------------
(* FuzzingEngine: construction *)

\* the fallback seed b"test"
TestSeed == <<116, 101, 115, 116>>

SeedEntries ==
    {[is_file |-> TRUE, readable |-> TRUE, data |-> <<65, 66>>],
     [is_file |-> TRUE, readable |-> TRUE, data |-> <<>>],
     [is_file |-> TRUE, readable |-> FALSE, data |-> <<>>],
     [is_file |-> FALSE, readable |-> FALSE, data |-> <<>>]}

\* what seeds_dir.iterdir() can list
SeedDirs == UNION {[1..n -> SeedEntries] : n \in 0..MaxSeedFiles}

\* the loop of _load_seeds: files that can be read, in the order listed
RECURSIVE ReadSeeds(_)
ReadSeeds(entries) ==
    IF entries = <<>> THEN <<>>
    ELSE (IF Head(entries).is_file /\ Head(entries).readable
            THEN <<Head(entries).data>> ELSE <<>>)
         \o ReadSeeds(Tail(entries))

\* the corpus _load_seeds leaves
_load_seeds(exists, entries) ==
    IF ~exists THEN <<TestSeed>>
    ELSE IF ReadSeeds(entries) = <<>> THEN <<TestSeed>>
    ELSE ReadSeeds(entries)

NoResult ==
    [input_data |-> <<>>, crashed |-> FALSE, error_message |-> <<>>,
     coverage_hash |-> <<>>]

NoHash == Md5Hex(<<>>, 0)

NoEntry == [hash |-> <<>>, seen_before |-> FALSE, corpus |-> <<>>, seen |-> {},
            paths |-> 0, time |-> 0]

NoSummary == [printed |-> FALSE, total_executions |-> 0, unique_crashes |-> 0,
              unique_paths |-> 0, corpus |-> 0]

\* the state FuzzingEngine.__init__ leaves (seeds_dir exists: __init__ creates it)
InitEngine ==
    /\ \E dir \in SeedDirs : corpus = _load_seeds(TRUE, dir)
    /\ seed_count = Len(corpus)
    /\ use_dictionary \in BOOLEAN
    /\ seen_coverage = {}
    /\ seen_crashes = {}
    /\ total_executions = 0
    /\ unique_crashes = 0
    /\ unique_paths = 0
    /\ last_new_path_time = 0
    /\ crash_files = {}
    /\ max_iterations = 0
    /\ pc = "constructed"
    /\ i = 0
    /\ seed = <<>>
    /\ mutated = <<>>
    /\ result = NoResult
    /\ crash_hash = NoHash
    /\ cov_ret = FALSE
    /\ exit = "none"
    /\ clock = 1
    /\ summary = NoSummary
    /\ crash_msgs = {}
    /\ cov_history = {}
    /\ cov_entry = NoEntry
    /\ cov_appends = <<>>
    /\ target_calls = 0

\* self.mutator of the engine: no dictionary and no seed are passed
EngineMutator ==
    NewMutator(IF use_dictionary THEN "DictionaryMutator" ELSE "Mutator", Absent)

-----------------------------------------------------------------------------
(* FuzzingEngine: the helpers of run *)

\* _pick_input: random.choice(self.corpus)
_pick_input(c, s) == [out |-> c[RandInt(s, 0, Len(c) - 1) + 1], rng |-> RngStep(s)]

\* _hash_crash
_hash_crash(r) == Md5Hex(Encode(r.error_message) \o r.input_data, 16)

\* _save_crash: if crash_hash in self.seen_crashes: return
IsSeenCrash(h, seen) == h \in seen

\* the test as it would be if the empty fingerprint were not turned away
HasCoverageAlways(r) == TRUE

\* _check_new_coverage: the test `not result.coverage_hash` negated
HasCoverage(r) == r.coverage_hash # <<>>

\* the test as it would be without the look-up in seen_coverage
IsNewCoverageAlways(r, seen) == TRUE

\* _check_new_coverage: result.coverage_hash not in self.seen_coverage
IsNewCoverage(r, seen) == r.coverage_hash \notin seen

\* the append as it would be if the corpus held each byte string once
AppendCorpusDistinct(c, data) ==
    IF \E n \in 1..Len(c) : c[n] = data THEN c ELSE Append(c, data)

\* self.corpus.append(data)
AppendCorpus(c, data) == Append(c, data)

\* the two artifacts of a crash in crashes_dir
CrashFile(h, ext) == [name |-> h, ext |-> ext]

(* What the target function can hand back for a candidate: a FuzzResult    *)
(* whose fields it fills as it likes.                                      *)
Messages == {<<69>>}
CoverageHashes == {<<>>, <<112>>, <<113>>}
\* input bytes a target records that are not the candidate it was given
RecordedOther == <<0>>

\* a result that is not a crash carries no message
TargetResults(candidate) ==
    {r \in [input_data : {candidate, RecordedOther}, crashed : BOOLEAN,
            error_message : Messages \cup {<<>>}, coverage_hash : CoverageHashes] :
        r.crashed <=> r.error_message # <<>>}

\* positions of run inside its try block
TryPcs == {"loop", "pick", "mutate", "target", "in_target", "count", "save_crash", "crash_add",
           "crash_inc", "crash_bin", "crash_txt", "coverage", "cov_add",
           "cov_append", "cov_inc", "cov_time", "status"}

dataVars == <<corpus, seen_coverage, seen_crashes, total_executions, unique_crashes,
              unique_paths, last_new_path_time, crash_files>>
localVars == <<seed, mutated, result, crash_hash, cov_ret>>
histVars == <<crash_msgs, cov_history, cov_entry, cov_appends, target_calls,
              seed_count>>
otherVars == <<mutVars, monVars, sideVars>>

-----------------------------------------------------------------------------
(* FuzzingEngine.run, statement by statement *)

\* engine.run(max_iterations = n)
Run(n) ==
    /\ pc = "constructed"
    /\ max_iterations' = n
    /\ pc' = "loop"
    /\ UNCHANGED <<rng, dataVars, localVars, histVars, otherVars, use_dictionary,
                   i, exit, clock, summary>>

\* for i in range(max_iterations)
LoopHead ==
    /\ pc = "loop"
    /\ IF i < max_iterations
         THEN pc' = "pick" /\ exit' = exit
         ELSE pc' = "summary" /\ exit' = "exhausted"
    /\ UNCHANGED <<rng, dataVars, localVars, histVars, otherVars, use_dictionary,
                   max_iterations, i, clock, summary>>

\* seed = self._pick_input()
PickInput ==
    /\ pc = "pick"
    /\ seed' = _pick_input(corpus, rng).out
    /\ rng' = _pick_input(corpus, rng).rng
    /\ pc' = "mutate"
    /\ UNCHANGED <<dataVars, mutated, result, crash_hash, cov_ret, histVars,
                   otherVars, use_dictionary, max_iterations, i, exit, clock, summary>>

\* mutated = self.mutator.mutate(seed)
MutateSeed ==
    /\ pc = "mutate"
    /\ mutated' = Mutate(EngineMutator, seed, rng).out
    /\ rng' = Mutate(EngineMutator, seed, rng).rng
    /\ pc' = "target"
    /\ UNCHANGED <<dataVars, seed, result, crash_hash, cov_ret, histVars,
                   otherVars, use_dictionary, max_iterations, i, exit, clock, summary>>

\* result = self.target_func(mutated): the call is made
TargetCall ==
    /\ pc = "target"
    /\ target_calls' = target_calls + 1
    /\ pc' = "in_target"
    /\ UNCHANGED <<rng, dataVars, localVars, crash_msgs, cov_history, cov_entry,
                   cov_appends, seed_count, otherVars, use_dictionary,
                   max_iterations, i, exit,
                   clock, summary>>

\* result = self.target_func(mutated): the call returns
TargetReturns(r) ==
    /\ pc = "in_target"
    /\ r \in TargetResults(mutated)
    /\ result' = r
    /\ clock' = clock + 1
    /\ pc' = "count"
    /\ UNCHANGED <<rng, dataVars, seed, mutated, crash_hash, cov_ret, histVars,
                   otherVars, use_dictionary, max_iterations, i, exit, summary>>

\* result = self.target_func(mutated): the call raises an Exception; run has
\* no handler for it, so it leaves run
TargetRaises ==
    /\ pc = "in_target"
    /\ clock' = clock + 1
    /\ pc' = "raised"
    /\ exit' = "error"
    /\ UNCHANGED <<rng, dataVars, localVars, histVars, otherVars, use_dictionary,
                   max_iterations, i, summary>>

\* self.stats.total_executions += 1
CountExecution ==
    /\ pc = "count"
    /\ total_executions' = total_executions + 1
    /\ pc' = "save_crash"
    /\ UNCHANGED <<rng, corpus, seen_coverage, seen_crashes, unique_crashes,
                   unique_paths, last_new_path_time, crash_files, localVars,
                   histVars, otherVars, use_dictionary, max_iterations, i, exit,
                   clock, summary>>

\* if result.crashed: self._save_crash(result), up to its early return
SaveCrashEntry ==
    /\ pc = "save_crash"
    /\ IF ~result.crashed
         THEN /\ pc' = "coverage"
              /\ UNCHANGED <<crash_hash, crash_msgs>>
         ELSE /\ crash_hash' = _hash_crash(result)
              /\ crash_msgs' = crash_msgs \cup {result.error_message}
              /\ pc' = IF IsSeenCrash(_hash_crash(result), seen_crashes)
                         THEN "coverage" ELSE "crash_add"
    /\ UNCHANGED <<rng, dataVars, seed, mutated, result, cov_ret, cov_history,
                   cov_entry, cov_appends, target_calls, seed_count, otherVars,
                   use_dictionary,
                   max_iterations, i, exit, clock, summary>>

\* self.seen_crashes.add(crash_hash)
CrashAdd ==
    /\ pc = "crash_add"
    /\ seen_crashes' = seen_crashes \cup {crash_hash}
    /\ pc' = "crash_inc"
    /\ UNCHANGED <<rng, corpus, seen_coverage, total_executions, unique_crashes,
                   unique_paths, last_new_path_time, crash_files, localVars,
                   histVars, otherVars, use_dictionary, max_iterations, i, exit,
                   clock, summary>>

\* self.stats.unique_crashes += 1
CrashInc ==
    /\ pc = "crash_inc"
    /\ unique_crashes' = unique_crashes + 1
    /\ pc' = "crash_bin"
    /\ UNCHANGED <<rng, corpus, seen_coverage, seen_crashes, total_executions,
                   unique_paths, last_new_path_time, crash_files, localVars,
                   histVars, otherVars, use_dictionary, max_iterations, i, exit,
                   clock, summary>>

\* crash_file.write_bytes(...) for ext = "bin", info_file.write_text(...) for
\* ext = "txt": the write succeeds, or raises OSError, which leaves run
CrashWrite(ext, ok) ==
    /\ pc = (IF ext = "bin" THEN "crash_bin" ELSE "crash_txt")
    /\ IF ok
         THEN /\ crash_files' = crash_files \cup {CrashFile(crash_hash, ext)}
              /\ pc' = (IF ext = "bin" THEN "crash_txt" ELSE "coverage")
              /\ exit' = exit
         ELSE /\ crash_files' = crash_files
              /\ pc' = "raised"
              /\ exit' = "error"
    /\ UNCHANGED <<rng, corpus, seen_coverage, seen_crashes, total_executions,
                   unique_crashes, unique_paths, last_new_path_time, localVars,
                   histVars, otherVars, use_dictionary, max_iterations, i, clock,
                   summary>>

\* self._check_new_coverage(result), up to its first change or return
CoverageEntry ==
    /\ pc = "coverage"
    /\ cov_entry' = [hash |-> result.coverage_hash,
                     seen_before |-> result.coverage_hash \in cov_history,
                     corpus |-> corpus, seen |-> seen_coverage,
                     paths |-> unique_paths, time |-> last_new_path_time]
    /\ cov_history' = cov_history \cup {result.coverage_hash}
    /\ IF HasCoverage(result) /\ IsNewCoverage(result, seen_coverage)
         THEN pc' = "cov_add" /\ cov_ret' = cov_ret
         ELSE pc' = "status" /\ cov_ret' = FALSE
    /\ UNCHANGED <<rng, dataVars, seed, mutated, result, crash_hash, crash_msgs,
                   cov_appends, target_calls, seed_count, otherVars,
                   use_dictionary, max_iterations, i, exit,
                   clock, summary>>

\* self.seen_coverage.add(result.coverage_hash)
CovAdd ==
    /\ pc = "cov_add"
    /\ seen_coverage' = seen_coverage \cup {result.coverage_hash}
    /\ pc' = "cov_append"
    /\ UNCHANGED <<rng, corpus, seen_crashes, total_executions, unique_crashes,
                   unique_paths, last_new_path_time, crash_files, localVars,
                   histVars, otherVars, use_dictionary, max_iterations, i, exit,
                   clock, summary>>

\* self.corpus.append(result.input_data)
CovAppend ==
    /\ pc = "cov_append"
    /\ corpus' = AppendCorpus(corpus, result.input_data)
    /\ cov_appends' = Append(cov_appends, result.coverage_hash)
    /\ pc' = "cov_inc"
    /\ UNCHANGED <<rng, seen_coverage, seen_crashes, total_executions,
                   unique_crashes, unique_paths, last_new_path_time, crash_files,
                   localVars, crash_msgs, cov_history, cov_entry, target_calls,
                   seed_count,
                   otherVars,
                   use_dictionary, max_iterations, i, exit, clock, summary>>

\* self.stats.unique_paths += 1
CovInc ==
    /\ pc = "cov_inc"
    /\ unique_paths' = unique_paths + 1
    /\ pc' = "cov_time"
    /\ UNCHANGED <<rng, corpus, seen_coverage, seen_crashes, total_executions,
                   unique_crashes, last_new_path_time, crash_files, localVars,
                   histVars, otherVars, use_dictionary, max_iterations, i, exit,
                   clock, summary>>

\* self.stats.last_new_path_time = time.time(); return True
CovTime ==
    /\ pc = "cov_time"
    /\ last_new_path_time' = clock
    /\ cov_ret' = TRUE
    /\ pc' = "status"
    /\ UNCHANGED <<rng, corpus, seen_coverage, seen_crashes, total_executions,
                   unique_crashes, unique_paths, crash_files, seed, mutated, result,
                   crash_hash, histVars, otherVars, use_dictionary, max_iterations,
                   i, exit, clock, summary>>

\* if i % print_interval == 0: self._print_status(); then the next i.  The
\* locals of the iteration are not read again: they are cleared here.
Status ==
    /\ pc = "status"
    /\ i' = i + 1
    /\ pc' = "loop"
    /\ seed' = <<>>
    /\ mutated' = <<>>
    /\ result' = NoResult
    /\ crash_hash' = NoHash
    /\ cov_ret' = FALSE
    /\ cov_entry' = NoEntry
    /\ UNCHANGED <<rng, dataVars, crash_msgs, cov_history, cov_appends,
                   target_calls, seed_count, otherVars,
                   use_dictionary, max_iterations, exit, clock, summary>>

\* the handler as it would be if it left run at once
AfterInterruptReturn(p) == "stopped"

\* the handler as it would be if it went on with the statement interrupted
AfterInterruptResume(p) == p

\* except KeyboardInterrupt: the handler prints and run goes on after the try
\* statement, wherever in the try block (at p) the interrupt was raised
AfterInterrupt(p) == "summary"

\* KeyboardInterrupt raised anywhere inside the try block: the handler of run
Interrupt ==
    /\ pc \in TryPcs
    /\ pc' = AfterInterrupt(pc)
    /\ exit' = "interrupt"
    /\ UNCHANGED <<rng, dataVars, localVars, histVars, otherVars, use_dictionary,
                   max_iterations, i, clock, summary>>

\* the final report of run
Summary ==
    /\ pc = "summary"
    /\ summary' = [printed |-> TRUE, total_executions |-> total_executions,
                   unique_crashes |-> unique_crashes, unique_paths |-> unique_paths,
                   corpus |-> Len(corpus)]
    /\ pc' = "stopped"
    /\ UNCHANGED <<rng, dataVars, localVars, histVars, otherVars, use_dictionary,
                   max_iterations, i, exit, clock>>

\* no CrashMonitor in use
InitMonitor ==
    /\ mon_seen = {}
    /\ mon_files = {}
    /\ mon_log = <<>>

\* crash_info = None
NoCrash ==
    [crash_type |-> <<>>, error_message |-> <<>>, stack_trace |-> <<>>,
     input_data |-> <<>>, timestamp |-> 0]

\* threads that share one engine and one monitor
Workers == {1, 2}

\* no strategy called yet
NoApplication ==
    [name |-> "none", data |-> <<>>, rng |-> 0, out |-> <<>>, failed |-> FALSE]

IdleStrat == strat = NoApplication

\* no HttpTarget in use
IdleHttp == http_log = <<>>

\* no thread but the one in run
IdleWorkers ==
    /\ w_pc = [w \in Workers |-> "idle"]
    /\ w_result = [w \in Workers |->
                      [result |-> NoResult, crash_info |-> NoCrash, wrote |-> {}]]

\* no strategy called on its own, no HttpTarget and no second thread in use
InitSide ==
    /\ IdleStrat
    /\ IdleHttp
    /\ IdleWorkers

Init ==
    /\ InitRng
    /\ InitEngine
    /\ InitMutators
    /\ InitMonitor
    /\ InitSide

Next ==
    \/ \E n \in 0..MaxIter : Run(n)
    \/ LoopHead
    \/ PickInput
    \/ MutateSeed
    \/ TargetCall
    \/ \E r \in TargetResults(mutated) : TargetReturns(r)
    \/ TargetRaises
    \/ CountExecution
    \/ SaveCrashEntry
    \/ CrashAdd
    \/ CrashInc
    \/ \E ext \in {"bin", "txt"}, ok \in BOOLEAN : CrashWrite(ext, ok)
    \/ CoverageEntry
    \/ CovAdd
    \/ CovAppend
    \/ CovInc
    \/ CovTime
    \/ Status
    \/ Interrupt
    \/ Summary

Spec == Init /\ [][Next]_vars

\* an engine constructed over an empty seed directory
InitFair ==
    /\ Init
    /\ corpus = _load_seeds(TRUE, <<>>)

\* the interpreter goes on to the next statement of run while there is one
SpecFair == InitFair /\ [][Next]_vars /\ WF_vars(Next)

-----------------------------------------------------------------------------
(* SpecMut *)

\* no engine in use: one fixed state of its variables
IdleEngine ==
    /\ corpus = <<TestSeed>>
    /\ seed_count = 1
    /\ use_dictionary = FALSE
    /\ seen_coverage = {}
    /\ seen_crashes = {}
    /\ total_executions = 0
    /\ unique_crashes = 0
    /\ unique_paths = 0
    /\ last_new_path_time = 0
    /\ crash_files = {}
    /\ max_iterations = 0
    /\ pc = "idle"
    /\ i = 0
    /\ seed = <<>>
    /\ mutated = <<>>
    /\ result = NoResult
    /\ crash_hash = NoHash
    /\ cov_ret = FALSE
    /\ exit = "none"
    /\ clock = 1
    /\ summary = NoSummary
    /\ crash_msgs = {}
    /\ cov_history = {}
    /\ cov_entry = NoEntry
    /\ cov_appends = <<>>
    /\ target_calls = 0

InitMut ==
    /\ InitRng
    /\ IdleEngine
    /\ InitMutators
    /\ InitMonitor
    /\ InitSide

NextMut ==
    \/ \E k \in Instances, sd \in MutSeeds :
          MutConstruct(k, "Mutator", Absent, sd)
    \/ \E k \in Instances, d \in MutDictionaries, sd \in MutSeeds :
          MutConstruct(k, "DictionaryMutator", d, sd)
    \/ \E k \in Instances, data \in MutInputs :
          /\ MutCall(k, data)
          /\ UNCHANGED <<engVars, monVars, sideVars>>
    \/ MutPickInput /\ UNCHANGED <<engVars, monVars, sideVars>>

SpecMut == InitMut /\ [][NextMut]_vars

-----------------------------------------------------------------------------
(* SpecStrat: one strategy of Mutator called once on a non-empty input, in *)
(* any state of the generator.                                             *)

StratInputs ==
    {<<7>>, <<0, 255>>, <<1, 2, 3>>, <<65, 66, 67, 68>>,
     <<48, 49, 50, 51, 52, 53, 54, 55, 56, 57, 58, 59>>}

\* every state random.seed can leave the generator in
RngStates == 0..255

InitStrat ==
    /\ rng \in RngStates
    /\ IdleEngine
    /\ InitMutators
    /\ InitMonitor
    /\ strat \in {[NoApplication EXCEPT !.data = d] : d \in StratInputs}
    /\ IdleHttp
    /\ IdleWorkers

\* mutator.<name>(data): the call returns the result or raises
StratApply(name) ==
    /\ strat.name = "none"
    /\ IF Raises(name, strat.data, rng)
         THEN /\ strat' = [name |-> name, data |-> strat.data, rng |-> rng,
                           out |-> <<>>, failed |-> TRUE]
              /\ rng' = rng
         ELSE /\ strat' = [name |-> name, data |-> strat.data, rng |-> rng,
                           out |-> Strategy(name, strat.data, rng).out,
                           failed |-> FALSE]
              /\ rng' = Strategy(name, strat.data, rng).rng
    /\ UNCHANGED <<engVars, mutVars, monVars, http_log, w_pc, w_result>>

NextStrat == \E name \in Strategies : StratApply(name)

SpecStrat == InitStrat /\ [][NextStrat]_vars

-----------------------------------------------------------------------------
(* CrashInfo and CrashMonitor *)

\* the crash_type strings: "exception", "timeout", "memory", "recursion"
TypeException == <<101, 120, 99, 101, 112, 116, 105, 111, 110>>
TypeTimeout == <<116, 105, 109, 101, 111, 117, 116>>
TypeMemory == <<109, 101, 109, 111, 114, 121>>
TypeRecursion == <<114, 101, 99, 117, 114, 115, 105, 111, 110>>

\* CrashMonitor(timeout = 5.0)
MonTimeout == 5

\* text.split('\n')
RECURSIVE SplitLines(_)
SplitLines(text) ==
    IF \A k \in 1..Len(text) : text[k] # 10 THEN <<text>>
    ELSE LET k == CHOOSE n \in 1..Len(text) :
                     text[n] = 10 /\ \A m \in 1..(n - 1) : text[m] # 10
         IN <<SubSeq(text, 1, k - 1)>> \o SplitLines(SubSeq(text, k + 1, Len(text)))

\* '\n'.join(lines)
RECURSIVE JoinLines(_)
JoinLines(lines) ==
    IF lines = <<>> THEN <<>>
    ELSE IF Len(lines) = 1 THEN lines[1]
    ELSE lines[1] \o <<10>> \o JoinLines(Tail(lines))

\* crash_hash as it would be if it hashed the input bytes as well
CrashHashWithInput(c) ==
    Md5Hex(Encode(c.crash_type \o <<58>> \o
                  JoinLines(Slice(SplitLines(c.stack_trace), 0, 3))) \o c.input_data, 12)

\* CrashInfo.crash_hash: md5 of f"{crash_type}:{trace_key}", 12 digits
CrashInfo_crash_hash(c) ==
    LET trace_lines == Slice(SplitLines(c.stack_trace), 0, 3)
        trace_key == JoinLines(trace_lines)
    IN Md5Hex(Encode(c.crash_type \o <<58>> \o trace_key), 12)

\* CrashInfo(crash_type, error_message, stack_trace, input_data) created at time now
CrashInfo(type, message, trace, input, now) ==
    [crash_type |-> type, error_message |-> message, stack_trace |-> trace,
     input_data |-> input, timestamp |-> now]

(* What one call of the monitored function can do: return after some time, *)
(* or raise.  An error raised is given by the classes it is an instance    *)
(* of, its type name, str(e) and the text traceback.format_exc() gives.    *)
MonInputs == {<<65>>, <<66, 67>>}

\* tracebacks: "a\nb\nc\nd", "a\nb\nc\ne" (the same first three lines) and "a\nx"
Trace1 == <<97, 10, 98, 10, 99, 10, 100>>
Trace2 == <<97, 10, 98, 10, 99, 10, 101>>
Trace3 == <<97, 10, 120>>

\* the traceback ends with the message of the error: str(e) goes with the trace
Raised(classes, name, traces) ==
    {[classes |-> classes, name |-> name, text |-> tt[1], trace |-> tt[2]] :
        tt \in {<<<<109>>, Trace1>>, <<<<110>>, Trace2>>, <<<<109>>, Trace3>>} \cap
                ({<<109>>, <<110>>} \X traces)}

\* errors that are instances of neither, one or both of MemoryError and
\* RecursionError
PlainErrors == Raised({"ValueError", "Exception", "BaseException"}, <<86>>,
                      {Trace1, Trace2, Trace3})
SpecialErrors ==
    Raised({"MemoryError", "Exception", "BaseException"}, <<77>>, {Trace1})
    \cup Raised({"RecursionError", "RuntimeError", "Exception", "BaseException"},
                <<82>>, {Trace1})
    \cup Raised({"MemoryError", "RecursionError", "RuntimeError", "Exception",
                 "BaseException"}, <<88>>, {Trace1})

KeyboardInterruptError ==
    [classes |-> {"KeyboardInterrupt", "BaseException"}, name |-> <<75>>,
     text |-> <<>>, trace |-> <<>>]

NoError == [classes |-> {}, name |-> <<>>, text |-> <<>>, trace |-> <<>>]

FuncOutcomes ==
    {[raised |-> FALSE, error |-> NoError, elapsed |-> t] :
        t \in {0, MonTimeout, MonTimeout + 1}}
    \cup {[raised |-> TRUE, error |-> e, elapsed |-> t] :
            e \in PlainErrors, t \in {0, MonTimeout + 1}}
    \cup {[raised |-> TRUE, error |-> e, elapsed |-> MonTimeout + 1] :
            e \in SpecialErrors}
    \cup {[raised |-> TRUE, error |-> KeyboardInterruptError, elapsed |-> 0]}

\* the except clauses of execute_with_monitoring, in their order, with the
\* crash_type each gives
ExceptClauses ==
    <<[class |-> "MemoryError", type |-> TypeMemory],
      [class |-> "RecursionError", type |-> TypeRecursion],
      [class |-> "Exception", type |-> TypeException]>>

\* the first except clause that matches the error, 0 when none does
MatchingClause(e) ==
    IF \A n \in 1..Len(ExceptClauses) : ExceptClauses[n].class \notin e.classes THEN 0
    ELSE CHOOSE n \in 1..Len(ExceptClauses) :
            /\ ExceptClauses[n].class \in e.classes
            /\ \A m \in 1..(n - 1) : ExceptClauses[m].class \notin e.classes

\* the test as it would be with >= for >
TimedOutAtLimit(elapsed, timeout) == elapsed >= timeout

\* if elapsed > self.timeout
TimedOut(elapsed, timeout) == elapsed > timeout

\* the try statement of execute_with_monitoring: the crash_info it leaves, and
\* whether the error leaves execute_with_monitoring (no clause catches it)
Monitored(o, input, now) ==
    IF ~o.raised
      THEN [escapes |-> FALSE,
            crash_info |-> IF TimedOut(o.elapsed, MonTimeout)
                             THEN CrashInfo(TypeTimeout, <<116>>, <<>>, input, now)
                             ELSE NoCrash]
    ELSE IF MatchingClause(o.error) = 0
      THEN [escapes |-> TRUE, crash_info |-> NoCrash]
    ELSE LET type == ExceptClauses[MatchingClause(o.error)].type
         IN [escapes |-> FALSE,
             crash_info |->
                CrashInfo(type,
                          IF type = TypeException
                            THEN o.error.name \o <<58, 32>> \o o.error.text
                            ELSE o.error.text,
                          o.error.trace, input, now)]

\* the test as it would be without the look-up in seen_crashes
IsNewCrashAlways(c, seen) == c # NoCrash

\* if crash_info and crash_info.crash_hash not in self.seen_crashes
IsNewCrash(c, seen) == c # NoCrash /\ CrashInfo_crash_hash(c) \notin seen

\* _save_crash: the files written before the write that fails, if one does
SavedFiles(wr) ==
    CASE wr = "ok" -> {"input", "txt"}
      [] wr = "fail_txt" -> {"input"}
      [] wr = "fail_input" -> {}

\* the registration as it would be if it came before _save_crash
RegisteredBeforeSave(new, wr) == new

\* self._save_crash(crash_info); self.seen_crashes.add(crash_info.crash_hash):
\* add is reached when the crash is new and no write of _save_crash raised
Registered(new, wr) == new /\ wr = "ok"

\* monitor.execute_with_monitoring(func, input): func does o, the writes of
\* _save_crash go as wr says
ExecuteWithMonitoring(input, o, wr) ==
    /\ Len(mon_log) < MaxMonCalls
    /\ LET now == Len(mon_log) + 1
           m == Monitored(o, input, now)
           c == m.crash_info
           new == ~m.escapes /\ IsNewCrash(c, mon_seen)
           h == CrashInfo_crash_hash(c)
       IN /\ (~new => wr = "ok")
          /\ mon_files' = IF new THEN mon_files \cup {CrashFile(h, x) : x \in SavedFiles(wr)}
                          ELSE mon_files
          /\ mon_seen' = IF Registered(new, wr) THEN mon_seen \cup {h} ELSE mon_seen
          /\ mon_log' = Append(mon_log,
                [input |-> input, outcome |-> o, calls |-> 1, crash_info |-> c,
                 fp |-> IF c = NoCrash THEN NoHash ELSE h,
                 wrote |-> IF new THEN SavedFiles(wr) ELSE {},
                 returned |-> ~m.escapes /\ wr = "ok"])
    /\ UNCHANGED <<rngVars, engVars, mutVars, sideVars>>

InitMon ==
    /\ InitRng
    /\ IdleEngine
    /\ InitMutators
    /\ InitMonitor
    /\ InitSide

NextMon ==
    \E input \in MonInputs, o \in FuncOutcomes, wr \in {"ok", "fail_input", "fail_txt"} :
        ExecuteWithMonitoring(input, o, wr)

SpecMon == InitMon /\ [][NextMon]_vars

-----------------------------------------------------------------------------
(* HttpTarget: run sends the data with the session and turns what comes     *)
(* of the request, a response or an error raised, into a FuzzResult.  The   *)
(* three branches on config.method differ in the session method called.     *)

\* calls of HttpTarget.run
MaxHttpCalls == 2

\* str(n) for a natural number n
RECURSIVE Decimal(_)
Decimal(n) == IF n < 10 THEN <<48 + n>> ELSE Decimal(n \div 10) \o <<48 + (n % 10)>>

\* bytes.lower()
Lower(content) ==
    [n \in 1..Len(content) |->
        IF content[n] >= 65 /\ content[n] <= 90 THEN content[n] + 32 ELSE content[n]]

\* pattern in content
Contains(pattern, content) ==
    \E n \in 0..(Len(content) - Len(pattern)) :
        SubSeq(content, n + 1, n + Len(pattern)) = pattern

\* b"error", b"exception", b"traceback", b"stack trace", b"undefined", b"null"
error_patterns ==
    <<<<101, 114, 114, 111, 114>>,
      <<101, 120, 99, 101, 112, 116, 105, 111, 110>>,
      <<116, 114, 97, 99, 101, 98, 97, 99, 107>>,
      <<115, 116, 97, 99, 107, 32, 116, 114, 97, 99, 101>>,
      <<117, 110, 100, 101, 102, 105, 110, 101, 100>>,
      <<110, 117, 108, 108>>>>

\* pattern_flags: "1" or "0" for each pattern, in their order
RECURSIVE PatternFlags(_, _)
PatternFlags(patterns, content) ==
    IF patterns = <<>> THEN <<>>
    ELSE <<IF Contains(Head(patterns), Lower(content)) THEN 49 ELSE 48>>
         \o PatternFlags(Tail(patterns), content)

\* f"{response.status_code}_{size_bucket}_{pattern_flags}"
_generate_coverage_hash(response) ==
    LET size_bucket == Len(response.content) \div 100
    IN Decimal(response.status_code) \o <<95>> \o Decimal(size_bucket) \o <<95>>
       \o PatternFlags(error_patterns, response.content)

\* the test as it would be with > for >=
IsServerErrorAbove(status_code) == status_code > 500

\* if response.status_code >= 500
IsServerError(status_code) == status_code >= 500

\* "Server error: HTTP "
ServerErrorText ==
    <<83, 101, 114, 118, 101, 114, 32, 101, 114, 114, 111, 114, 58, 32,
      72, 84, 84, 80, 32>>
\* "Request timeout (possible hang/DoS)"
TimeoutText ==
    <<82, 101, 113, 117, 101, 115, 116, 32, 116, 105, 109, 101, 111,
      117, 116, 32, 40, 112, 111, 115, 115, 105, 98, 108, 101, 32, 104,
      97, 110, 103, 47, 68, 111, 83, 41>>
\* "Connection error (server crash?): "
ConnectionErrorText ==
    <<67, 111, 110, 110, 101, 99, 116, 105, 111, 110, 32, 101, 114,
      114, 111, 114, 32, 40, 115, 101, 114, 118, 101, 114, 32, 99, 114,
      97, 115, 104, 63, 41, 58, 32>>
\* "Unexpected error: "
UnexpectedErrorText ==
    <<85, 110, 101, 120, 112, 101, 99, 116, 101, 100, 32, 101, 114,
      114, 111, 114, 58, 32>>

\* FuzzResult(input_data = data); execution_time, a measurement, is left out
FuzzResult(data) ==
    [input_data |-> data, crashed |-> FALSE, error_message |-> <<>>,
     response_data |-> <<>>, coverage_hash |-> <<>>]

\* the except clauses of run, in their order
HttpExceptClauses == <<"Timeout", "ConnectionError", "Exception">>

\* the first except clause that matches the error, 0 when none does
HttpMatchingClause(e) ==
    IF \A n \in 1..Len(HttpExceptClauses) : HttpExceptClauses[n] \notin e.classes THEN 0
    ELSE CHOOSE n \in 1..Len(HttpExceptClauses) :
            /\ HttpExceptClauses[n] \in e.classes
            /\ \A m \in 1..(n - 1) : HttpExceptClauses[m] \notin e.classes

\* HttpTarget.run(data) when the request does o: whether the error leaves run,
\* and the FuzzResult returned when it does not
HttpTarget_run(data, o) ==
    IF ~o.raised
      THEN [escapes |-> FALSE,
            result |->
              [FuzzResult(data) EXCEPT
                 !.response_data = o.response.content,
                 !.crashed = IsServerError(o.response.status_code),
                 !.error_message =
                    IF IsServerError(o.response.status_code)
                      THEN ServerErrorText \o Decimal(o.response.status_code)
                      ELSE <<>>,
                 !.coverage_hash = _generate_coverage_hash(o.response)]]
    ELSE IF HttpMatchingClause(o.error) = 0
      THEN [escapes |-> TRUE, result |-> FuzzResult(data)]
    ELSE [escapes |-> FALSE,
          result |->
            [FuzzResult(data) EXCEPT
               !.crashed = TRUE,
               !.error_message =
                  CASE HttpMatchingClause(o.error) = 1 -> TimeoutText
                    [] HttpMatchingClause(o.error) = 2 ->
                         ConnectionErrorText \o Slice(o.error.text, 0, 100)
                    [] HttpMatchingClause(o.error) = 3 ->
                         UnexpectedErrorText \o Slice(o.error.text, 0, 100)]]

(* What can come of the request.  A response has a status and a body; an    *)
(* error is given by the classes it is an instance of and by str(e).        *)
HttpInputs == {<<>>, <<123, 125>>}

StatusCodes == {200, 499, 500, 503}

\* bodies: empty, b"ERROR: Null" and 100 bytes b"x"
Bodies ==
    {<<>>,
     <<69, 82, 82, 79, 82, 58, 32, 78, 117, 108, 108>>,
     [n \in 1..100 |-> 120]}

NoResponse == [status_code |-> 0, content |-> <<>>]

\* str(e): empty, and longer than the 100 characters run keeps
ErrorTexts == {<<>>, [n \in 1..101 |-> 97]}

HttpErrors ==
    {[classes |-> c, text |-> x] :
        c \in {{"ReadTimeout", "Timeout", "RequestException", "OSError", "Exception",
                "BaseException"},
               {"ConnectTimeout", "ConnectionError", "Timeout", "RequestException",
                "OSError", "Exception", "BaseException"},
               {"ConnectionError", "RequestException", "OSError", "Exception",
                "BaseException"},
               {"InvalidURL", "RequestException", "OSError", "ValueError", "Exception",
                "BaseException"}},
        x \in ErrorTexts}
    \cup {[classes |-> {"KeyboardInterrupt", "BaseException"}, text |-> <<>>]}

RequestOutcomes ==
    {[raised |-> FALSE, response |-> [status_code |-> st, content |-> b],
      error |-> [classes |-> {}, text |-> <<>>]] : st \in StatusCodes, b \in Bodies}
    \cup {[raised |-> TRUE, response |-> NoResponse, error |-> e] : e \in HttpErrors}

\* target.run(data), the request doing o
HttpRun(data, o) ==
    /\ Len(http_log) < MaxHttpCalls
    /\ http_log' = Append(http_log,
          [data |-> data, outcome |-> o,
           returned |-> ~HttpTarget_run(data, o).escapes,
           result |-> HttpTarget_run(data, o).result])
    /\ UNCHANGED <<rngVars, engVars, mutVars, monVars, strat, w_pc, w_result>>

InitHttp ==
    /\ InitRng
    /\ IdleEngine
    /\ InitMutators
    /\ InitMonitor
    /\ InitSide

NextHttp == \E data \in HttpInputs, o \in RequestOutcomes : HttpRun(data, o)

SpecHttp == InitHttp /\ [][NextHttp]_vars

-----------------------------------------------------------------------------
(* SpecWorkers: two threads that share one FuzzingEngine and one            *)
(* CrashMonitor.  A thread hands one result to _save_crash and              *)
(* _check_new_coverage as run does, or makes one call of                    *)
(* execute_with_monitoring.  The code takes no lock: the threads interleave *)
(* between statements, and the file writes of _save_crash let go of the     *)
(* interpreter lock.                                                        *)

\* the variables of run that the bookkeeping of a result leaves alone
runVars == <<total_executions, use_dictionary, max_iterations, pc, i, localVars,
             exit, clock, summary, histVars>>

\* the results the threads hand in, for one candidate
WorkerResults == TargetResults(TestSeed)

\* thread w moves to p; thread w holds v
Goto(w, p) == w_pc' = [w_pc EXCEPT ![w] = p]
Hold(w, v) == w_result' = [w_result EXCEPT ![w] = v]

\* thread w has a result r: if result.crashed: self._save_crash(result)
WorkerStart(w, r) ==
    /\ w_pc[w] = "idle"
    /\ Hold(w, [w_result[w] EXCEPT !.result = r])
    /\ Goto(w, "save_crash")
    /\ UNCHANGED <<rngVars, dataVars, runVars, mutVars, monVars, strat, http_log>>

\* thread w runs its next statement of _save_crash or _check_new_coverage
WorkerStep(w) ==
    LET r == w_result[w].result
        h == _hash_crash(r)
    IN /\ \/ /\ w_pc[w] = "save_crash"
             /\ IF r.crashed /\ ~IsSeenCrash(h, seen_crashes)
                  THEN Goto(w, "crash_add") ELSE Goto(w, "coverage")
             /\ UNCHANGED dataVars
          \/ /\ w_pc[w] = "crash_add"
             /\ seen_crashes' = seen_crashes \cup {h}
             /\ Goto(w, "crash_inc")
             /\ UNCHANGED <<corpus, seen_coverage, unique_crashes, unique_paths,
                            last_new_path_time, crash_files>>
          \/ /\ w_pc[w] = "crash_inc"
             /\ unique_crashes' = unique_crashes + 1
             /\ Goto(w, "crash_bin")
             /\ UNCHANGED <<corpus, seen_coverage, seen_crashes, unique_paths,
                            last_new_path_time, crash_files>>
          \/ /\ w_pc[w] \in {"crash_bin", "crash_txt"}
             /\ \E ok \in BOOLEAN :
                  IF ok THEN /\ crash_files' = crash_files \cup
                                  {CrashFile(h, IF w_pc[w] = "crash_bin"
                                                  THEN "bin" ELSE "txt")}
                             /\ Goto(w, IF w_pc[w] = "crash_bin"
                                          THEN "crash_txt" ELSE "coverage")
                        ELSE /\ crash_files' = crash_files
                             /\ Goto(w, "raised")
             /\ UNCHANGED <<corpus, seen_coverage, seen_crashes, unique_crashes,
                            unique_paths, last_new_path_time>>
          \/ /\ w_pc[w] = "coverage"
             /\ IF HasCoverage(r) /\ IsNewCoverage(r, seen_coverage)
                  THEN Goto(w, "cov_add") ELSE Goto(w, "done")
             /\ UNCHANGED dataVars
          \/ /\ w_pc[w] = "cov_add"
             /\ seen_coverage' = seen_coverage \cup {r.coverage_hash}
             /\ Goto(w, "cov_append")
             /\ UNCHANGED <<corpus, seen_crashes, unique_crashes, unique_paths,
                            last_new_path_time, crash_files>>
          \/ /\ w_pc[w] = "cov_append"
             /\ corpus' = AppendCorpus(corpus, r.input_data)
             /\ Goto(w, "cov_inc")
             /\ UNCHANGED <<seen_coverage, seen_crashes, unique_crashes,
                            unique_paths, last_new_path_time, crash_files>>
          \/ /\ w_pc[w] = "cov_inc"
             /\ unique_paths' = unique_paths + 1
             /\ Goto(w, "cov_time")
             /\ UNCHANGED <<corpus, seen_coverage, seen_crashes, unique_crashes,
                            last_new_path_time, crash_files>>
          \/ /\ w_pc[w] = "cov_time"
             /\ last_new_path_time' = clock
             /\ Goto(w, "done")
             /\ UNCHANGED <<corpus, seen_coverage, seen_crashes, unique_crashes,
                            unique_paths, crash_files>>
       /\ UNCHANGED <<rngVars, runVars, mutVars, monVars, strat, http_log, w_result>>

\* thread w calls monitor.execute_with_monitoring(func, input): func does o
MonitorStart(w, input, o) ==
    /\ w_pc[w] = "idle"
    /\ Hold(w, [w_result[w] EXCEPT !.crash_info = Monitored(o, input, clock).crash_info])
    /\ Goto(w, IF Monitored(o, input, clock).escapes THEN "raised" ELSE "mon_test")
    /\ UNCHANGED <<rngVars, dataVars, runVars, mutVars, monVars, strat, http_log>>

\* thread w runs its next statement of execute_with_monitoring: the test,
\* the two writes of _save_crash, self.seen_crashes.add
MonitorStep(w) ==
    LET c == w_result[w].crash_info
        h == CrashInfo_crash_hash(c)
    IN /\ \/ /\ w_pc[w] = "mon_test"
             /\ Goto(w, IF IsNewCrash(c, mon_seen) THEN "mon_input" ELSE "done")
             /\ UNCHANGED <<mon_seen, mon_files, w_result>>
          \/ /\ w_pc[w] \in {"mon_input", "mon_txt"}
             /\ \E ok \in BOOLEAN :
                  LET x == IF w_pc[w] = "mon_input" THEN "input" ELSE "txt"
                  IN IF ok THEN /\ mon_files' = mon_files \cup {CrashFile(h, x)}
                                /\ Hold(w, [w_result[w] EXCEPT
                                              !.wrote = @ \cup {CrashFile(h, x)}])
                                /\ Goto(w, IF x = "input" THEN "mon_txt" ELSE "mon_add")
                           ELSE /\ Goto(w, "raised")
                                /\ UNCHANGED <<mon_files, w_result>>
             /\ UNCHANGED mon_seen
          \/ /\ w_pc[w] = "mon_add"
             /\ mon_seen' = mon_seen \cup {h}
             /\ Goto(w, "done")
             /\ UNCHANGED <<mon_files, w_result>>
       /\ UNCHANGED <<rngVars, engVars, mutVars, mon_log, strat, http_log>>

InitWorkers ==
    /\ InitRng
    /\ IdleEngine
    /\ InitMutators
    /\ InitMonitor
    /\ InitSide

NextWorkers ==
    \/ \E w \in Workers, r \in WorkerResults : WorkerStart(w, r)
    \/ \E w \in Workers : WorkerStep(w)
    \/ \E w \in Workers, input \in MonInputs, o \in FuncOutcomes :
          MonitorStart(w, input, o)
    \/ \E w \in Workers : MonitorStep(w)

SpecWorkers == InitWorkers /\ [][NextWorkers]_vars

-----------------------------------------------------------------------------
(* Properties *)

\* C1: mutate of either mutator class, given the empty byte string, returns
\* the empty byte string, whatever the generator draws.
C1_MutateEmptyIsEmpty ==
    \A k \in Instances : \A j \in 1..Len(mut_log[k]) :
        mut_log[k][j].data = <<>> => mut_log[k][j].out = <<>>

\* the inputs, and the outputs, of the mutate calls made on instance k so far
CallInputs(k) == [j \in 1..Len(mut_log[k]) |-> mut_log[k][j].data]
CallOutputs(k) == [j \in 1..Len(mut_log[k]) |-> mut_log[k][j].out]

\* C2: two mutator instances constructed alike with the same seed and given the
\* same sequence of mutate calls have produced the same sequence of outputs,
\* however their calls and other draws from the generator are interleaved.
C2_SameSeedSameOutputs ==
    \A a, b \in Instances :
        ( /\ muts[a].made /\ muts[b].made
          /\ muts[a].seed.some /\ muts[a].seed = muts[b].seed
          /\ muts[a].m = muts[b].m
          /\ CallInputs(a) = CallInputs(b) )
        => CallOutputs(a) = CallOutputs(b)

\* the text before the third newline of a trace (all of it when there are fewer)
TraceHead(text) ==
    LET nl == {k \in 1..Len(text) : text[k] = 10}
    IN IF Cardinality(nl) < 3 THEN text
       ELSE SubSeq(text, 1, (CHOOSE k \in nl : Cardinality({j \in nl : j < k}) = 2) - 1)

\* the calls of the monitor so far that made a crash record
CrashCalls == {j \in 1..Len(mon_log) : mon_log[j].crash_info # NoCrash}

\* C3: two crash records with the same crash category and the same first three
\* lines of trace have the same fingerprint, whatever their input bytes, error
\* message, timestamp and later trace lines.
C3_FingerprintFromTypeAndHead ==
    \A j, k \in CrashCalls :
        ( /\ mon_log[j].crash_info.crash_type = mon_log[k].crash_info.crash_type
          /\ TraceHead(mon_log[j].crash_info.stack_trace)
               = TraceHead(mon_log[k].crash_info.stack_trace) )
        => mon_log[j].fp = mon_log[k].fp

\* two records that differ in input, message, timestamp and later trace lines
\* and have one fingerprint
C3_Witness ==
    \E j, k \in CrashCalls :
        /\ mon_log[j].fp = mon_log[k].fp
        /\ mon_log[j].crash_info.input_data # mon_log[k].crash_info.input_data
        /\ mon_log[j].crash_info.error_message # mon_log[k].crash_info.error_message
        /\ mon_log[j].crash_info.timestamp # mon_log[k].crash_info.timestamp
        /\ mon_log[j].crash_info.stack_trace # mon_log[k].crash_info.stack_trace

\* C4: in the run loop crashes are told apart without regard to the input
\* bytes: of the crashed results that carry one error message only the first
\* counts as a unique crash and has artifacts written, so neither number
\* exceeds the number of distinct messages.
C4_DedupIgnoresInput ==
    /\ unique_crashes <= Cardinality(crash_msgs)
    /\ Cardinality({f \in crash_files : f.ext = "bin"}) <= Cardinality(crash_msgs)

AppendedOnce ==
    \A a, b \in 1..Len(cov_appends) : a # b => cov_appends[a] # cov_appends[b]

\* C6 as stated: _check_new_coverage returns true and appends one entry iff the
\* fingerprint of the result was not handed to it before in this run;
\* otherwise it returns false and the corpus is as it was.
C6_AdmitsIffUnseen ==
    pc = "status" =>
        /\ cov_ret <=> ~cov_entry.seen_before
        /\ cov_ret => corpus = Append(cov_entry.corpus, result.input_data)
        /\ ~cov_ret => corpus = cov_entry.corpus

\* C6 amended: it returns true and appends one entry iff the fingerprint is not
\* empty and was not handed to it before in this run; otherwise it returns
\* false and the corpus is as it was.  No fingerprint is appended for twice.
C6_AdmitsIffNonEmptyUnseen ==
    /\ pc = "status" =>
        /\ cov_ret <=> (cov_entry.hash # <<>> /\ ~cov_entry.seen_before)
        /\ cov_ret => corpus = Append(cov_entry.corpus, result.input_data)
        /\ ~cov_ret => corpus = cov_entry.corpus
    /\ AppendedOnce

\* a fingerprint admitted earlier is handed in again and turned away
C6_Witness ==
    /\ pc = "status"
    /\ cov_entry.hash # <<>>
    /\ cov_entry.seen_before
    /\ ~cov_ret
    /\ Len(cov_appends) >= 1

\* C7: a result whose fingerprint is empty is never admitted: admission returns
\* false and leaves the corpus, the set of seen fingerprints, unique_paths and
\* last_new_path_time as they were.
C7_EmptyFingerprintNotAdmitted ==
    /\ pc \in {"cov_add", "cov_append", "cov_inc", "cov_time"}
          => result.coverage_hash # <<>>
    /\ (pc = "status" /\ cov_entry.hash = <<>>) =>
          /\ ~cov_ret
          /\ corpus = cov_entry.corpus
          /\ seen_coverage = cov_entry.seen
          /\ unique_paths = cov_entry.paths
          /\ last_new_path_time = cov_entry.time
    /\ <<>> \notin seen_coverage

\* an empty fingerprint turned away after an earlier admission
C7_Witness ==
    /\ pc = "status"
    /\ cov_entry.hash = <<>>
    /\ unique_paths >= 1
    /\ last_new_path_time > 0

\* C8: the corpus is never empty, every step leaves the corpus it found as a
\* prefix of the corpus it leaves, and the append of an admission adds one
\* entry even when the corpus holds the same bytes already.
C8_CorpusNonEmptyAppendOnly ==
    /\ [](Len(corpus) > 0)
    /\ [][/\ IsPrefix(corpus, corpus')
          /\ (pc = "cov_append" /\ pc' = "cov_inc") => Len(corpus') = Len(corpus) + 1
         ]_vars

\* the corpus has grown and holds one byte string twice
C8_Witness ==
    \E a, b \in 1..Len(corpus) : a < b /\ corpus[a] = corpus[b] /\ unique_paths >= 2

\* the category the classification policy gives the outcome of a call
PolicyCategory(o) ==
    IF o.raised /\ "MemoryError" \in o.error.classes THEN TypeMemory
    ELSE IF o.raised /\ "RecursionError" \in o.error.classes THEN TypeRecursion
    ELSE IF o.raised /\ "Exception" \in o.error.classes THEN TypeException
    ELSE IF ~o.raised /\ o.elapsed > MonTimeout THEN TypeTimeout
    ELSE <<>>

\* C9: execute_with_monitoring calls the function once and classifies the
\* outcome in the order memory, recursion, exception, then timeout for a call
\* that returned after more than the timeout, else no crash record.
C9_ClassificationPriority ==
    \A j \in 1..Len(mon_log) :
        /\ mon_log[j].calls = 1
        /\ mon_log[j].crash_info.crash_type = PolicyCategory(mon_log[j].outcome)
        /\ (mon_log[j].outcome.raised /\ mon_log[j].outcome.elapsed > MonTimeout)
              => mon_log[j].crash_info.crash_type # TypeTimeout

\* a call that raised an error of both classes after the timeout had passed,
\* and a call that returned exactly at the timeout
C9_Witness ==
    /\ \E j \in 1..Len(mon_log) :
          /\ mon_log[j].outcome.raised
          /\ mon_log[j].outcome.elapsed > MonTimeout
          /\ {"MemoryError", "RecursionError"} \subseteq mon_log[j].outcome.error.classes
          /\ mon_log[j].crash_info.crash_type = TypeMemory
    /\ \E j \in 1..Len(mon_log) :
          /\ ~mon_log[j].outcome.raised
          /\ mon_log[j].outcome.elapsed = MonTimeout
          /\ mon_log[j].crash_info = NoCrash

\* C10: run ends only when the iteration budget is used up or on an interrupt:
\* no error of the target function and no failed write of a crash artifact
\* ends it.
C10_RunEndsOnlyOnBudgetOrInterrupt ==
    pc \in {"stopped", "raised"} => exit \in {"exhausted", "interrupt"}

\* C11: every exit of the loop of run, by the iteration budget used up or by
\* an interrupt anywhere in an iteration, is followed by the final report,
\* which gives the totals as they are then.
C11_ExitFollowedBySummary ==
    [](exit \in {"exhausted", "interrupt"} =>
          <>(/\ pc = "stopped"
             /\ summary.printed
             /\ summary.total_executions = total_executions
             /\ summary.unique_crashes = unique_crashes
             /\ summary.unique_paths = unique_paths
             /\ summary.corpus = Len(corpus)))

\* run interrupted while a target call was in flight, and the report printed
C11_Witness ==
    /\ pc = "stopped"
    /\ exit = "interrupt"
    /\ summary.printed
    /\ target_calls = total_executions + 1

\* run was left by an error of the target function: the call made last did
\* not return
TargetRaised == pc = "raised" /\ target_calls = total_executions + 1

\* C12: run(max_iterations = n) on a fresh engine that is not interrupted and
\* whose target returns on every call ends in the stopped state, after n
\* calls of the target and with total_executions = n.
C12_StopsAfterBudget ==
    (pc \in {"stopped", "raised"} /\ exit # "interrupt" /\ ~TargetRaised) =>
        /\ pc = "stopped"
        /\ total_executions = max_iterations
        /\ target_calls = max_iterations

\* C13: each of the six strategies, called on a non-empty input (one byte
\* long included), returns a byte sequence: no range it draws from is empty,
\* no subscript is out of range and every byte of the result is a byte.
C13_StrategiesInBounds ==
    strat.name # "none" =>
        /\ ~strat.failed
        /\ \A n \in 1..Len(strat.out) : strat.out[n] \in 0..255

\* delete has removed the last byte of an input, and nothing else
C13_Witness ==
    /\ strat.name = "_delete_bytes"
    /\ ~strat.failed
    /\ Len(strat.data) >= 2
    /\ strat.out = SubSeq(strat.data, 1, Len(strat.data) - 1)

DrawnPos == RandInt(strat.rng, 0, Len(strat.data) - 1)
DrawnChoice == RandInt(RngStep(strat.rng), 0, 2)
DrawnWidth == 2 ^ DrawnChoice

\* the little-endian forms of the boundary constants of one width
ConstantBytes(width) ==
    CASE width = 1 -> {<<INTERESTING_8[k]>> : k \in 1..Len(INTERESTING_8)}
      [] width = 2 -> {Pack(INTERESTING_16[k], 2) : k \in 1..Len(INTERESTING_16)}
      [] width = 4 -> {Pack32(INTERESTING_32[k]) : k \in 1..Len(INTERESTING_32)}

\* C15: interesting-value insert leaves the length as it is: when the constant
\* of 1, 2 or 4 bytes fits between the position drawn and the end it takes
\* the place of the bytes there and nothing else changes, and when it does not
\* fit the input is returned as it is.
C15_InterestingKeepsLength ==
    strat.name = "_insert_interesting" =>
        /\ Len(strat.out) = Len(strat.data)
        /\ IF DrawnPos + DrawnWidth <= Len(strat.data)
             THEN /\ SubSeq(strat.out, DrawnPos + 1, DrawnPos + DrawnWidth)
                        \in ConstantBytes(DrawnWidth)
                  /\ \A n \in 1..Len(strat.data) :
                        (n <= DrawnPos \/ n > DrawnPos + DrawnWidth)
                            => strat.out[n] = strat.data[n]
             ELSE strat.out = strat.data

\* a constant of 2 bytes drawn for the last position of an input: skipped
C15_Witness ==
    /\ strat.name = "_insert_interesting"
    /\ DrawnChoice = 1
    /\ DrawnPos = Len(strat.data) - 1
    /\ Len(strat.data) >= 2
    /\ strat.out = strat.data

\* C20: delete, given an input of two bytes or more, returns it without one
\* run of k bytes that starts at some position pos, 1 <= k <= min(10, length
\* - pos), the other bytes in their order; nothing may be left.
C20_DeleteRemovesOneRun ==
    (strat.name = "_delete_bytes" /\ Len(strat.data) >= 2) =>
        \E pos \in 0..(Len(strat.data) - 1) :
            \E k \in 1..Min(10, Len(strat.data) - pos) :
                strat.out = SubSeq(strat.data, 1, pos)
                              \o SubSeq(strat.data, pos + k + 1, Len(strat.data))

\* delete has removed every byte of an input, and of a longer one ten bytes
C20_Witness ==
    /\ strat.name = "_delete_bytes"
    /\ \/ Len(strat.data) >= 2 /\ strat.out = <<>>
       \/ Len(strat.data) > 10 /\ Len(strat.out) = Len(strat.data) - 10

\* the tokens of a dictionary
Tokens(dictionary) == {dictionary[n] : n \in 1..Len(dictionary)}

\* the calls of instance k that spliced a token into the empty input: what
\* they returned is the token
SplicedIntoEmpty(k) ==
    {mut_log[k][j].out : j \in {n \in 1..Len(mut_log[k]) :
                                   mut_log[k][n].data = <<>> /\ mut_log[k][n].out # <<>>}}

\* C16: a DictionaryMutator made with a dictionary, the empty one included,
\* splices tokens of that dictionary only; the built-in default is used only
\* when no dictionary is given.
C16_TokensFromGivenDictionary ==
    \A k \in Instances :
        (muts[k].made /\ muts[k].m.cls = "DictionaryMutator") =>
            /\ muts[k].given.some =>
                  /\ muts[k].m.dictionary = muts[k].given.val
                  /\ SplicedIntoEmpty(k) \subseteq Tokens(muts[k].given.val)
            /\ ~muts[k].given.some => muts[k].m.dictionary = DefaultDictionary

\* C18: once run has taken an interrupt it makes no further call of the
\* target and goes to its end by way of the final report, never by an error
\* handed to its caller.
C18_InterruptIsCleanStop ==
    /\ [](exit = "interrupt" => pc \in {"summary", "stopped"})
    /\ [][exit = "interrupt" =>
            /\ target_calls' = target_calls
            /\ total_executions' = total_executions
            /\ exit' = "interrupt"
            /\ pc' = "stopped"]_vars

\* run interrupted during its second call of the target, and ended
C18_Witness ==
    /\ pc = "stopped"
    /\ exit = "interrupt"
    /\ target_calls = 2
    /\ total_executions = 1

\* C19: HttpTarget.run returns a result whatever comes of the request.  An
\* error raised by the request (a timeout, a connection error, any other
\* Exception) gives crashed = True, a message that is not empty and an empty
\* fingerprint; a response gives crashed = True iff its status is 500 or
\* above, and a fingerprint that is not empty.
C19_HttpRunAlwaysReturns ==
    \A j \in 1..Len(http_log) :
        LET c == http_log[j]
        IN /\ (c.outcome.raised /\ "Exception" \in c.outcome.error.classes) =>
                /\ c.returned
                /\ c.result.crashed
                /\ c.result.error_message # <<>>
                /\ c.result.coverage_hash = <<>>
           /\ ~c.outcome.raised =>
                /\ c.returned
                /\ c.result.crashed <=> c.outcome.response.status_code >= 500
                /\ c.result.coverage_hash # <<>>
           /\ c.returned => c.result.input_data = c.data

\* a connection error, then a response with status 500
C19_Witness ==
    /\ Len(http_log) = 2
    /\ http_log[1].outcome.raised
    /\ "ConnectionError" \in http_log[1].outcome.error.classes
    /\ http_log[1].result.crashed
    /\ ~http_log[2].outcome.raised
    /\ http_log[2].outcome.response.status_code = 500
    /\ http_log[2].result.crashed

\* C17: admission to the corpus and the registration of a crash are atomic
\* for threads that share one store: when both threads are through, every
\* fingerprint seen has one entry appended for it and is counted once, every
\* crash hash seen is counted once, and no two threads have written the
\* artifacts of one crash fingerprint, also when both threads came with the
\* same fingerprint not seen before.
C17_AdmissionAtomic ==
    (\A w \in Workers : w_pc[w] = "done") =>
        /\ Len(corpus) = 1 + Cardinality(seen_coverage)
        /\ unique_paths = Cardinality(seen_coverage)
        /\ unique_crashes = Cardinality(seen_crashes)
        /\ \A a, b \in Workers :
              a # b => w_result[a].wrote \cap w_result[b].wrote = {}

\* C21: in every iteration in which _check_new_coverage admits, the entry
\* appended to the corpus is the mutated candidate that run passed to the
\* target in that iteration, whatever input bytes the result records.
C21_AdmittedEntryIsCandidate ==
    (pc = "status" /\ cov_ret) => corpus = Append(cov_entry.corpus, mutated)

\* the for statement of run is about to take its next i, or run has left it
AtIterationBoundaryOrExit == pc \in {"loop", "summary", "stopped", "raised"}

\* C22: at every iteration boundary of run, and once the loop is left, also
\* by an interrupt: unique_crashes is the size of seen_crashes, unique_paths is
\* the size of seen_coverage, the corpus has as many entries as seeds were
\* loaded plus unique_paths, and neither counter exceeds total_executions.
C22_CountersMatchSets ==
    AtIterationBoundaryOrExit =>
        /\ unique_crashes = Cardinality(seen_crashes)
        /\ unique_paths = Cardinality(seen_coverage)
        /\ Len(corpus) = seed_count + unique_paths
        /\ unique_crashes <= total_executions
        /\ unique_paths <= total_executions

\* both artifacts of the fingerprint h are in crashes_dir
Persisted(h) == {CrashFile(h, "input"), CrashFile(h, "txt")} \subseteq mon_files

\* the call j of execute_with_monitoring wrote both artifacts
WroteRecord(j) == mon_log[j].wrote = {"input", "txt"}

\* C23: CrashMonitor registers a fingerprint as seen only after its artifacts
\* are written: every fingerprint in seen_crashes has both artifacts on disk
\* and was written in full by some call; after a call whose write failed the
\* fingerprint is not in seen_crashes until a later call writes its record,
\* and the next call that produces it and whose writes succeed writes it.
C23_SeenOnlyAfterPersisted ==
    /\ \A h \in mon_seen :
          Persisted(h) /\ \E j \in CrashCalls : mon_log[j].fp = h /\ WroteRecord(j)
    /\ \A j \in CrashCalls :
          (/\ ~mon_log[j].returned
           /\ \A k \in CrashCalls :
                 (k > j /\ mon_log[k].fp = mon_log[j].fp) => ~WroteRecord(k))
              => mon_log[j].fp \notin mon_seen
    /\ \A j, k \in CrashCalls :
          (/\ j < k
           /\ mon_log[j].fp = mon_log[k].fp
           /\ \A n \in 1..(k - 1) : mon_log[n].fp = mon_log[k].fp => ~WroteRecord(n)
           /\ mon_log[k].returned)
              => WroteRecord(k)

\* a write of the record failed at one call, the fingerprint came again and
\* its record was written and registered then
C23_Witness ==
    \E j, k \in CrashCalls :
        /\ j < k
        /\ mon_log[j].fp = mon_log[k].fp
        /\ mon_log[j].wrote = {"input"}
        /\ ~mon_log[j].returned
        /\ WroteRecord(k)
        /\ mon_log[k].fp \in mon_seen
        /\ Persisted(mon_log[k].fp)

====
